---- MODULE Spec2Model ----
(***************************************************************************)
(* perds: a HashMap mirrored to an append-only postcard log (src/lib.rs).  *)
(*                                                                         *)
(* The model holds one path of the file system and at most one Perds       *)
(* value on it at a time.  Keys and values are strings; a string is the    *)
(* sequence of its bytes, every byte below 128 (one byte per char, one     *)
(* byte per varint).  The environment may fail any write(2) on the file,   *)
(* after any number of the bytes handed to it have reached the file; an    *)
(* open fails only when it needs a file that is not there, a read never.   *)
(* A Perds value has no close: it ends when it is dropped, and the drop of *)
(* its BufWriter flushes the buffer and ignores the error.                 *)
(***************************************************************************)
EXTENDS Integers, Sequences, FiniteSets, TLC

\* ------------------------------------------------------------------ bounds

\* Calls (insert, remove, flush) made over one run.
MaxCalls == 3
\* Perds values constructed over one run (new, from_file, try_from_file).
MaxOpens == 2
\* Capacity of the BufWriter (std: 8 KiB), scaled to the records of the model.
BufCap == 6
\* Writes the environment fails over one run (a write to a File that was
\* opened read-only always fails, and is not counted).
MaxFaults == 1
\* Calls (insert, remove) made over one run of SpecWords.
MaxWordCalls == 4
\* Records of the file a hydration starts from, in SpecReplay.
MaxRecs == 3
\* Whole records of the file a hydration starts from, in SpecTorn.
MaxTornRecs == 2

Keys == {<<0>>, <<1, 0>>}
Vals == {<<>>, <<1>>}
Strategies == {"Stream", "Manual"}

\* ------------------------------------------------------------------- state

VARIABLES
    fexists,    \* a file exists at path
    file,       \* its bytes (<<>> when none exists)
    open,       \* a Perds value is alive
    strategy,   \* Perds.strategy
    inner,      \* Perds.inner: a function from the keys present to their values
    buf,        \* Perds.writer: the bytes the BufWriter holds
    pos,        \* Perds.writer: the offset of the File it wraps
    canWrite,   \* Perds.writer: the File was opened for writing
    \* history
    last,       \* the most recent call and what it returned
    origin,     \* the constructor of the live (or last) Perds value
    initMap,    \* its inner when the constructor returned
    base,       \* the file's bytes when the constructor returned
    okRecs,     \* the records of its calls that returned Ok, in call order
    anyErr,     \* one of its insert or remove calls returned Err
    prev,       \* the Perds value dropped last, while the file it wrote stands
    given,      \* SpecReplay: the records the initial file was written from
    ncalls,
    nopens,
    nfaults     \* writes the environment has failed

vars == <<fexists, file, open, strategy, inner, buf, pos, canWrite, last,
          origin, initMap, base, okRecs, anyErr, prev, given, ncalls, nopens, nfaults>>

\* ------------------------------------------------------------------- maps

EmptyMap == [x \in {} |-> <<>>]

MapGet(m, k) == IF k \in DOMAIN m THEN {m[k]} ELSE {}

MapInsert(m, k, v) == [x \in (DOMAIN m) \cup {k} |-> IF x = k THEN v ELSE m[x]]

MapRemove(m, k) == [x \in (DOMAIN m) \ {k} |-> m[x]]

\* The maps new is called with: none, one and two entries.
Seeds ==
    {EmptyMap,
     MapInsert(EmptyMap, <<1, 0>>, <<1>>),
     MapInsert(MapInsert(EmptyMap, <<0>>, <<1>>), <<1, 0>>, <<>>)}

\* The orders in which a HashMap may iterate over its entries.
IterOrders(m) ==
    {s \in [1..Cardinality(DOMAIN m) -> DOMAIN m] :
        \A i, j \in DOMAIN s : i # j => s[i] # s[j]}

\* ------------------------------------------------------------------ codec

Insert_ == 0
Delete_ == 1

\* EncStr without the length: the bytes of the string alone.
EncStrNoLen(s) == s

\* postcard: a string is its length as a varint, then its bytes.
EncStr(s) == <<Len(s)>> \o s

\* InsertCmd without the value: the key alone follows the tag.
InsertCmdNoVal(k, v) == <<Insert_>> \o EncStr(k)

\* postcard::to_stdvec(&(Operation::Insert, k, v))
InsertCmd(k, v) == <<Insert_>> \o EncStr(k) \o EncStr(v)

\* DeleteCmd with the tag of an Insert and an empty value.
DeleteCmdAsInsert(k) == <<Insert_>> \o EncStr(k) \o EncStr(<<>>)

\* postcard::to_stdvec(&(Operation::Delete, k))
DeleteCmd(k) == <<Delete_>> \o EncStr(k)

RecInsert(k, v) == [tag |-> Insert_, key |-> k, val |-> v]
RecDelete(k) == [tag |-> Delete_, key |-> k, val |-> <<>>]

EncRec(r) == IF r.tag = Insert_ THEN InsertCmd(r.key, r.val) ELSE DeleteCmd(r.key)

RECURSIVE EncAll(_)
EncAll(rs) == IF rs = <<>> THEN <<>> ELSE EncRec(Head(rs)) \o EncAll(Tail(rs))

DecErr == [ok |-> FALSE, val |-> <<>>, rest |-> <<>>]

\* postcard::take_from_bytes::<Operation>: a varint discriminant, 0 or 1.
TakeOp(b) ==
    IF b = <<>> THEN DecErr
    ELSE IF Head(b) \in {Insert_, Delete_}
         THEN [ok |-> TRUE, val |-> Head(b), rest |-> Tail(b)]
         ELSE DecErr

\* postcard::take_from_bytes::<String>: a varint length, then that many bytes.
TakeStr(b) ==
    IF b = <<>> THEN DecErr
    ELSE IF Len(b) - 1 < Head(b) THEN DecErr
         ELSE [ok |-> TRUE,
               val |-> SubSeq(b, 2, Head(b) + 1),
               rest |-> SubSeq(b, Head(b) + 2, Len(b))]

\* One turn of the loop of from_file and try_from_file: the record at the
\* front of b, and the bytes after it.
TakeRec(b) ==
    LET op == TakeOp(b) IN
    IF ~op.ok THEN DecErr
    ELSE LET k == TakeStr(op.rest) IN
         IF ~k.ok THEN DecErr
         ELSE IF op.val = Delete_
              THEN [ok |-> TRUE, val |-> RecDelete(k.val), rest |-> k.rest]
              ELSE LET v == TakeStr(k.rest) IN
                   IF ~v.ok THEN DecErr
                   ELSE [ok |-> TRUE, val |-> RecInsert(k.val, v.val), rest |-> v.rest]

\* The records the loop takes from b, until b is empty.
RECURSIVE TakeAll(_)
TakeAll(b) ==
    IF b = <<>> THEN [ok |-> TRUE, recs |-> <<>>]
    ELSE LET r == TakeRec(b) IN
         IF ~r.ok THEN [ok |-> FALSE, recs |-> <<>>]
         ELSE LET t == TakeAll(r.rest) IN
              IF ~t.ok THEN t ELSE [ok |-> TRUE, recs |-> <<r.val>> \o t.recs]

ReplayErr == [ok |-> FALSE, map |-> EmptyMap]

\* Replay with an Insert that keeps the value a key already has.
RECURSIVE ReplayFirstWins(_, _)
ReplayFirstWins(b, map) ==
    IF b = <<>> THEN [ok |-> TRUE, map |-> map]
    ELSE LET op == TakeOp(b) IN
         IF ~op.ok THEN ReplayErr
         ELSE LET k == TakeStr(op.rest) IN
              IF ~k.ok THEN ReplayErr
              ELSE IF op.val = Delete_
                   THEN ReplayFirstWins(k.rest, MapRemove(map, k.val))
                   ELSE LET v == TakeStr(k.rest) IN
                        IF ~v.ok THEN ReplayErr
                        ELSE ReplayFirstWins(v.rest,
                                 IF k.val \in DOMAIN map THEN map
                                 ELSE MapInsert(map, k.val, v.val))

\* Replay that stops at a record it cannot decode and keeps the map so far.
RECURSIVE ReplayTolerant(_, _)
ReplayTolerant(b, map) ==
    IF b = <<>> THEN [ok |-> TRUE, map |-> map]
    ELSE LET op == TakeOp(b) IN
         IF ~op.ok THEN [ok |-> TRUE, map |-> map]
         ELSE LET k == TakeStr(op.rest) IN
              IF ~k.ok THEN [ok |-> TRUE, map |-> map]
              ELSE IF op.val = Delete_
                   THEN ReplayTolerant(k.rest, MapRemove(map, k.val))
                   ELSE LET v == TakeStr(k.rest) IN
                        IF ~v.ok THEN [ok |-> TRUE, map |-> map]
                        ELSE ReplayTolerant(v.rest, MapInsert(map, k.val, v.val))

\* The loop of from_file and try_from_file.
RECURSIVE Replay(_, _)
Replay(b, map) ==
    IF b = <<>> THEN [ok |-> TRUE, map |-> map]
    ELSE LET op == TakeOp(b) IN
         IF ~op.ok THEN ReplayErr
         ELSE LET k == TakeStr(op.rest) IN
              IF ~k.ok THEN ReplayErr
              ELSE IF op.val = Delete_
                   THEN Replay(k.rest, MapRemove(map, k.val))
                   ELSE LET v == TakeStr(k.rest) IN
                        IF ~v.ok THEN ReplayErr
                        ELSE Replay(v.rest, MapInsert(map, k.val, v.val))

\* ----------------------------------------------------------------- writer

\* A writer is the BufWriter<File> with the file it writes to: the file's
\* bytes, the File's offset and access mode, the buffer, and the writes the
\* environment may still fail.
Writer == [file |-> file, pos |-> pos, buf |-> buf, can |-> canWrite,
           faults |-> MaxFaults - nfaults]

\* WriteAt that writes at the start of the file, whatever the offset.
WriteAtStart(f, p, bytes) == bytes \o SubSeq(f, Len(bytes) + 1, Len(f))

\* The bytes of f after `bytes` are written at offset p.
WriteAt(f, p, bytes) ==
    SubSeq(f, 1, p) \o bytes \o SubSeq(f, p + Len(bytes) + 1, Len(f))

\* How many of `bytes` may have reached the file when writing them fails: any
\* number short of all on a File open for writing, none on a read-only one.
Torn(w, bytes) ==
    IF ~w.can THEN {0}
    ELSE IF w.faults > 0 THEN 0..(Len(bytes) - 1) ELSE {}

\* The writer after the first n of `bytes` went to the file.
Wrote(w, bytes, n) ==
    [w EXCEPT !.file = WriteAt(w.file, w.pos, SubSeq(bytes, 1, n)),
              !.pos = w.pos + n]

\* The writer after a write failed: one fault of the environment is spent.
Failed(w) == IF w.can THEN [w EXCEPT !.faults = w.faults - 1] ELSE w

\* File::write_all(bytes), the buffer bypassed: all of bytes, or an error
\* after some of them.
FileWriteAll(w, bytes) ==
    IF bytes = <<>> THEN {[ok |-> TRUE, w |-> w]}
    ELSE (IF w.can THEN {[ok |-> TRUE, w |-> Wrote(w, bytes, Len(bytes))]} ELSE {})
         \cup {[ok |-> FALSE, w |-> Failed(Wrote(w, bytes, n))] : n \in Torn(w, bytes)}

\* BufWriter::flush_buf: the buffer goes to the file; on an error the bytes
\* not yet written stay in the buffer.
FlushBuf(w) ==
    {[ok |-> o.ok,
      w |-> [o.w EXCEPT !.buf = SubSeq(w.buf, (o.w.pos - w.pos) + 1, Len(w.buf))]] :
        o \in FileWriteAll(w, w.buf)}

\* BufFlush that returns Ok and writes nothing.
BufFlushNoop(w) == {[ok |-> TRUE, w |-> w]}

\* BufWriter::flush: flush_buf, then File::flush, which does nothing.
BufFlush(w) == FlushBuf(w)

Buffered(w, bytes) == [ok |-> TRUE, w |-> [w EXCEPT !.buf = w.buf \o bytes]]

\* BufWriter::write_all: bytes shorter than the spare capacity are buffered;
\* otherwise the buffer is flushed when they do not fit, and they are written
\* to the file directly when they are no shorter than the whole capacity.
BufWriteAll(w, bytes) ==
    IF Len(bytes) < BufCap - Len(w.buf) THEN {Buffered(w, bytes)}
    ELSE LET flushed == IF Len(bytes) > BufCap - Len(w.buf)
                        THEN FlushBuf(w)
                        ELSE {[ok |-> TRUE, w |-> w]}
         IN UNION {IF ~o.ok THEN {o}
                   ELSE IF Len(bytes) >= BufCap THEN FileWriteAll(o.w, bytes)
                   ELSE {Buffered(o.w, bytes)} : o \in flushed}

\* insert and remove: write_all(cmd), then flush under Strategy::Stream.
AppendCmd(w, cmd, strat) ==
    UNION {IF o.ok /\ strat = "Stream" THEN BufFlush(o.w) ELSE {o} :
              o \in BufWriteAll(w, cmd)}

\* Drop of the BufWriter: flush_buf, its error ignored; then the File closes.
DropWriter(w) == {o.w : o \in FlushBuf(w)}

\* ---------------------------------------------------------------- actions

None == {}

\* What is at path: no file, an empty file, or a file with bytes.
AtPath == IF ~fexists THEN "absent" ELSE IF file = <<>> THEN "empty" ELSE "content"

\* A call, what it returned, and what was at path when it was made.  An Err
\* is Error::FileError (From<std::io::Error>) unless the call says otherwise.
Call(op, ok, k, v, ret) ==
    [op |-> op, ok |-> ok, err |-> IF ok THEN "none" ELSE "FileError",
     key |-> k, val |-> v, ret |-> ret, seed |-> EmptyMap, pre |-> AtPath]

Constructed(op, ok) == Call(op, ok, <<>>, <<>>, None)

\* A constructor returned Err(Error::SerError) (From<postcard::Error>).
Undecoded(op) == [Constructed(op, FALSE) EXCEPT !.err = "SerError"]

\* prev: its history, and the bytes left in its buffer when it was dropped.
NoPrev == [origin |-> "none", strategy |-> "Stream", initMap |-> EmptyMap,
           okRecs |-> <<>>, anyErr |-> FALSE, left |-> <<>>]

SetWriter(w) ==
    /\ file' = w.file
    /\ pos' = w.pos
    /\ buf' = w.buf
    /\ nfaults' = MaxFaults - w.faults

\* No Perds value: the fields of the model hold what a dropped value leaves.
NoStore ==
    /\ open' = FALSE
    /\ inner' = EmptyMap
    /\ buf' = <<>>
    /\ pos' = 0
    /\ canWrite' = FALSE

\* A constructor returned Ok(Self {strategy, inner: m, writer: w, path}).
Built(c, strat, m, w) ==
    /\ open' = TRUE
    /\ strategy' = strat
    /\ inner' = m
    /\ SetWriter(w)
    /\ canWrite' = w.can
    /\ origin' = c.op
    /\ initMap' = m
    /\ base' = w.file
    /\ okRecs' = <<>>
    /\ anyErr' = FALSE
    /\ last' = c

\* A constructor returned Err: no Perds value, the file as the call left it.
NotBuilt(c, f) ==
    /\ NoStore
    /\ file' = f.file
    /\ nfaults' = MaxFaults - f.faults
    /\ last' = c
    /\ UNCHANGED <<strategy, origin, initMap, base, okRecs, anyErr>>

\* OpenTruncate without truncate(true): the bytes at path stay.
OpenKeep(f) == f

\* File::options().write(true).truncate(true).create(true).open(&path)
OpenTruncate(f) == <<>>

\* SeedCmds that stops after the first entry of the iteration.
SeedCmdsFirstOnly(m, order) ==
    IF order = <<>> THEN <<>> ELSE InsertCmd(Head(order), m[Head(order)])

\* The initial batch of new: one Insert command per entry, in iteration order.
RECURSIVE SeedCmds(_, _)
SeedCmds(m, order) ==
    IF order = <<>> THEN <<>>
    ELSE InsertCmd(Head(order), m[Head(order)]) \o SeedCmds(m, Tail(order))

\* new: write_all(cmds), then flush, when the seed is not empty.
SeedWrites(w, m, order) ==
    IF DOMAIN m = {} THEN {[ok |-> TRUE, w |-> w]}
    ELSE UNION {IF o.ok THEN BufFlush(o.w) ELSE {o} :
                   o \in BufWriteAll(w, SeedCmds(m, order))}

\* Perds::new(value, strategy, path)
New(value, strat, order) ==
    /\ ~open
    /\ nopens < MaxOpens
    /\ nopens' = nopens + 1
    /\ fexists' = TRUE
    /\ \E o \in SeedWrites([Writer EXCEPT !.file = OpenTruncate(file), !.pos = 0,
                                           !.buf = <<>>, !.can = TRUE],
                            value, order) :
          IF o.ok
          THEN Built([Constructed("new", TRUE) EXCEPT !.seed = value], strat, value, o.w)
          ELSE \E d \in DropWriter(o.w) :
                  NotBuilt([Constructed("new", FALSE) EXCEPT !.seed = value], d)
    /\ prev' = NoPrev
    /\ UNCHANGED <<given, ncalls>>

\* FromFile that opens with create(true): a missing file is made, empty.
FromFileCreates(strat) ==
    /\ ~open
    /\ nopens < MaxOpens
    /\ nopens' = nopens + 1
    /\ fexists' = TRUE
    /\ LET r == Replay(file, EmptyMap) IN
       IF r.ok
       THEN Built(Constructed("from_file", TRUE), strat, r.map,
                  [Writer EXCEPT !.pos = Len(file), !.buf = <<>>, !.can = FALSE])
       ELSE NotBuilt(Undecoded("from_file"), Writer)
    /\ UNCHANGED <<prev, given, ncalls>>

\* Perds::from_file(strategy, path): File::open reads only.
FromFile(strat) ==
    /\ ~open
    /\ nopens < MaxOpens
    /\ nopens' = nopens + 1
    /\ IF ~fexists
       THEN NotBuilt(Constructed("from_file", FALSE), Writer)
       ELSE LET r == Replay(file, EmptyMap) IN
            IF r.ok
            THEN Built(Constructed("from_file", TRUE), strat, r.map,
                       [Writer EXCEPT !.pos = Len(file), !.buf = <<>>, !.can = FALSE])
            ELSE NotBuilt(Undecoded("from_file"), Writer)
    /\ UNCHANGED <<fexists, prev, given, ncalls>>

\* TryFromFile that opens with truncate(true): the file is emptied, then read.
TryFromFileTruncates(strat) ==
    /\ ~open
    /\ nopens < MaxOpens
    /\ nopens' = nopens + 1
    /\ IF ~fexists
       THEN NotBuilt(Constructed("try_from_file", FALSE), Writer)
       ELSE Built(Constructed("try_from_file", TRUE), strat, EmptyMap,
                  [Writer EXCEPT !.file = <<>>, !.pos = 0, !.buf = <<>>, !.can = TRUE])
    /\ UNCHANGED <<fexists, prev, given, ncalls>>

\* Perds::try_from_file(strategy, path): opened for reading and writing,
\* not created.
TryFromFile(strat) ==
    /\ ~open
    /\ nopens < MaxOpens
    /\ nopens' = nopens + 1
    /\ IF ~fexists
       THEN NotBuilt(Constructed("try_from_file", FALSE), Writer)
       ELSE LET r == Replay(file, EmptyMap) IN
            IF r.ok
            THEN Built(Constructed("try_from_file", TRUE), strat, r.map,
                       [Writer EXCEPT !.pos = Len(file), !.buf = <<>>, !.can = TRUE])
            ELSE NotBuilt(Undecoded("try_from_file"), Writer)
    /\ UNCHANGED <<fexists, prev, given, ncalls>>

\* CommitInsert that updates the map before the append is known to succeed.
CommitInsertAlways(m, k, v, ok) == MapInsert(m, k, v)

\* CommitRemove that updates the map before the append is known to succeed.
CommitRemoveAlways(m, k, ok) == MapRemove(m, k)

\* insert: the map after the call, given whether the append succeeded.
CommitInsert(m, k, v, ok) == IF ok THEN MapInsert(m, k, v) ELSE m

\* remove: the map after the call, given whether the append succeeded.
CommitRemove(m, k, ok) == IF ok THEN MapRemove(m, k) ELSE m

\* Returned without the value: None whatever the map held.
ReturnedNone(m, k, ok) == None

\* Ok(self.inner.insert(k, v)), Ok(self.inner.remove(&k)): the value the map
\* m held for k before the call, when the append succeeded.
Returned(m, k, ok) == IF ok THEN MapGet(m, k) ELSE None

\* Perds::insert(k, v)
InsertCall(k, v) ==
    /\ open
    /\ ncalls' = ncalls + 1
    /\ \E o \in AppendCmd(Writer, InsertCmd(k, v), strategy) :
          /\ SetWriter(o.w)
          /\ inner' = CommitInsert(inner, k, v, o.ok)
          /\ last' = Call("insert", o.ok, k, v, Returned(inner, k, o.ok))
          /\ okRecs' = IF o.ok THEN Append(okRecs, RecInsert(k, v)) ELSE okRecs
          /\ anyErr' = (anyErr \/ ~o.ok)
    /\ UNCHANGED <<fexists, open, strategy, canWrite, origin, initMap, base,
                   prev, given, nopens>>

\* Perds::remove(k)
RemoveCall(k) ==
    /\ open
    /\ ncalls' = ncalls + 1
    /\ \E o \in AppendCmd(Writer, DeleteCmd(k), strategy) :
          /\ SetWriter(o.w)
          /\ inner' = CommitRemove(inner, k, o.ok)
          /\ last' = Call("remove", o.ok, k, <<>>, Returned(inner, k, o.ok))
          /\ okRecs' = IF o.ok THEN Append(okRecs, RecDelete(k)) ELSE okRecs
          /\ anyErr' = (anyErr \/ ~o.ok)
    /\ UNCHANGED <<fexists, open, strategy, canWrite, origin, initMap, base,
                   prev, given, nopens>>

\* insert and remove, within the calls of one run.
Insert(k, v) == ncalls < MaxCalls /\ InsertCall(k, v)

Remove(k) == ncalls < MaxCalls /\ RemoveCall(k)

\* Perds::flush()
Flush ==
    /\ open
    /\ ncalls < MaxCalls
    /\ ncalls' = ncalls + 1
    /\ \E o \in BufFlush(Writer) :
          /\ SetWriter(o.w)
          /\ last' = Call("flush", o.ok, <<>>, <<>>, None)
    /\ UNCHANGED <<fexists, open, strategy, inner, canWrite, origin, initMap,
                   base, okRecs, anyErr, prev, given, nopens>>

\* The Perds value goes out of scope: its BufWriter is dropped.
Close ==
    /\ open
    /\ \E w \in DropWriter(Writer) :
          /\ file' = w.file
          /\ nfaults' = MaxFaults - w.faults
          /\ prev' = [origin |-> origin, strategy |-> strategy, initMap |-> initMap,
                      okRecs |-> okRecs, anyErr |-> anyErr, left |-> w.buf]
    /\ NoStore
    /\ last' = Call("drop", TRUE, <<>>, <<>>, None)
    /\ UNCHANGED <<fexists, strategy, origin, initMap, base, okRecs, anyErr,
                   given, ncalls, nopens>>

Init ==
    /\ fexists = FALSE
    /\ file = <<>>
    /\ open = FALSE
    /\ strategy = "Stream"
    /\ inner = EmptyMap
    /\ buf = <<>>
    /\ pos = 0
    /\ canWrite = FALSE
    /\ last = [op |-> "none", ok |-> TRUE, err |-> "none", key |-> <<>>, val |-> <<>>,
               ret |-> None, seed |-> EmptyMap, pre |-> "absent"]
    /\ origin = "none"
    /\ initMap = EmptyMap
    /\ base = <<>>
    /\ okRecs = <<>>
    /\ anyErr = FALSE
    /\ prev = NoPrev
    /\ given = <<>>
    /\ ncalls = 0
    /\ nopens = 0
    /\ nfaults = 0

Next ==
    \/ \E m \in Seeds, s \in Strategies : \E order \in IterOrders(m) : New(m, s, order)
    \/ \E s \in Strategies : FromFile(s)
    \/ \E s \in Strategies : TryFromFile(s)
    \/ \E k \in Keys, v \in Vals : Insert(k, v)
    \/ \E k \in Keys : Remove(k)
    \/ Flush
    \/ Close

Spec == Init /\ [][Next]_vars

\* Hydration alone, from a file that holds any records: the records are
\* written by the codec, the file is then only read.
Records ==
    {RecInsert(k, v) : k \in Keys, v \in Vals} \cup {RecDelete(k) : k \in Keys}

InitReplay ==
    /\ given \in UNION {[1..n -> Records] : n \in 0..MaxRecs}
    /\ fexists = TRUE
    /\ file = EncAll(given)
    /\ open = FALSE
    /\ strategy = "Stream"
    /\ inner = EmptyMap
    /\ buf = <<>>
    /\ pos = 0
    /\ canWrite = FALSE
    /\ last = [op |-> "none", ok |-> TRUE, err |-> "none", key |-> <<>>, val |-> <<>>,
               ret |-> None, seed |-> EmptyMap, pre |-> "absent"]
    /\ origin = "none"
    /\ initMap = EmptyMap
    /\ base = <<>>
    /\ okRecs = <<>>
    /\ anyErr = FALSE
    /\ prev = NoPrev
    /\ ncalls = 0
    /\ nopens = 0
    /\ nfaults = 0

NextReplay ==
    \/ \E s \in Strategies : FromFile(s)
    \/ \E s \in Strategies : TryFromFile(s)
    \/ Close

SpecReplay == InitReplay /\ [][NextReplay]_vars

\* Hydration, flush and drop, with no insert or remove, from a file that holds
\* any records.
NextHydrate ==
    \/ \E s \in Strategies : FromFile(s)
    \/ \E s \in Strategies : TryFromFile(s)
    \/ Flush
    \/ Close

SpecHydrate == InitReplay /\ [][NextHydrate]_vars

\* Hydration from a file whose last record was cut off: the records of
\* `given`, then a non-empty proper prefix of the bytes of one more record.
\* No Perds value is ever built, so there is none to drop.
InitTorn ==
    /\ given \in UNION {[1..n -> Records] : n \in 0..MaxTornRecs}
    /\ fexists = TRUE
    /\ \E r \in Records : \E n \in 1..(Len(EncRec(r)) - 1) :
          file = EncAll(given) \o SubSeq(EncRec(r), 1, n)
    /\ open = FALSE
    /\ strategy = "Stream"
    /\ inner = EmptyMap
    /\ buf = <<>>
    /\ pos = 0
    /\ canWrite = FALSE
    /\ last = [op |-> "none", ok |-> TRUE, err |-> "none", key |-> <<>>, val |-> <<>>,
               ret |-> None, seed |-> EmptyMap, pre |-> "absent"]
    /\ origin = "none"
    /\ initMap = EmptyMap
    /\ base = <<>>
    /\ okRecs = <<>>
    /\ anyErr = FALSE
    /\ prev = NoPrev
    /\ ncalls = 0
    /\ nopens = 0
    /\ nfaults = 0

NextTorn ==
    \/ \E s \in Strategies : FromFile(s)
    \/ \E s \in Strategies : TryFromFile(s)

SpecTorn == InitTorn /\ [][NextTorn]_vars

\* The calls of tests::test_stream and of examples/hydrate.rs, on their keys
\* and values, under Strategy::Stream: new on an empty map, then insert and
\* remove in any order, drop and from_file.
Abc == <<97, 98, 99>>
Fed == <<102, 101, 100>>
Def == <<100, 101, 102>>
Hello == <<104, 101, 108, 108, 111>>
World == <<119, 111, 114, 108, 100>>

WordKeys == {Abc, Hello}
WordPairs == {<<Abc, Fed>>, <<Abc, Def>>, <<Hello, World>>}

NextWords ==
    \/ New(EmptyMap, "Stream", <<>>)
    \/ \E kv \in WordPairs : ncalls < MaxWordCalls /\ InsertCall(kv[1], kv[2])
    \/ \E k \in WordKeys : ncalls < MaxWordCalls /\ RemoveCall(k)
    \/ Close
    \/ FromFile("Stream")

SpecWords == Init /\ [][NextWords]_vars

\* ----------------------------------------------------------------- claims

\* The reference: a record applied to an in-memory map.
ApplyRec(m, r) == IF r.tag = Insert_ THEN MapInsert(m, r.key, r.val) ELSE MapRemove(m, r.key)

RECURSIVE ApplyAll(_, _)
ApplyAll(m, rs) == IF rs = <<>> THEN m ELSE ApplyAll(ApplyRec(m, Head(rs)), Tail(rs))

Mutating == {"insert", "remove"}
Hydrating == {"from_file", "try_from_file"}

\* The step is a call of insert, remove or flush on the live Perds value.
CallStep == open /\ ncalls' = ncalls + 1

\* from_file has just run on the file of a Perds value that new created, whose
\* insert and remove calls all returned Ok, and that was then dropped.
AfterCleanLife ==
    /\ last.op = "from_file"
    /\ prev.origin = "new"
    /\ ~prev.anyErr

C2_WriteThenCommit ==
    [][(CallStep /\ last'.op \in Mutating /\ ~last'.ok) => inner' = inner]_vars

C2_Witness ==
    /\ open
    /\ last.op = "insert"
    /\ ~last.ok
    /\ MapGet(inner, last.key) # {last.val}
    /\ file # base

\* C3 as stated: on a Perds value returned by from_file, insert, remove and
\* flush return Ok, and once the records are flushed (every call under Stream,
\* flush under Manual) the file is the hydrated file followed by the records,
\* and replays to the map with those calls applied.
C3_FromFileAppends ==
    (open /\ origin = "from_file" /\ last.op \in Mutating \cup {"flush"})
        => /\ last.ok
           /\ (strategy = "Stream" \/ last.op = "flush")
                 => /\ file = base \o EncAll(okRecs)
                    /\ Replay(file, EmptyMap) = [ok |-> TRUE, map |-> ApplyAll(initMap, okRecs)]

\* C4: the in-memory map is the initial map of the Perds value with the records
\* of exactly its successful calls applied in call order.
C4_ContainerInvariant == open => inner = ApplyAll(initMap, okRecs)

C4_Witness ==
    /\ open
    /\ anyErr
    /\ Len(okRecs) >= 2
    /\ inner # initMap

\* C5 as stated: under Stream, on a Perds value made by new, after every
\* insert or remove that returns Ok the file is the seed batch followed by the
\* records of the successful calls so far, in call order.
C5_StreamDurable ==
    (open /\ origin = "new" /\ strategy = "Stream" /\ last.op \in Mutating /\ last.ok)
        => file = base \o EncAll(okRecs)

\* The encodings of the records rs occur in b one after the other, in order.
RECURSIVE InOrder(_, _)
InOrder(rs, b) ==
    IF rs = <<>> THEN TRUE
    ELSE LET e == EncRec(Head(rs)) IN
         \E i \in 1..(Len(b) - Len(e) + 1) :
             /\ SubSeq(b, i, i + Len(e) - 1) = e
             /\ InOrder(Tail(rs), SubSeq(b, i + Len(e), Len(b)))

\* C6: under Manual, when flush returns Ok nothing is left in the buffer and
\* the file holds, after the bytes it had when the Perds value was built, the
\* records of every successful call in call order (and nothing else when no
\* call failed); under Stream, a flush that follows a successful insert or
\* remove changes neither the file nor the map.
C6_Flush ==
    [][(CallStep /\ last'.op = "flush") =>
          /\ (strategy = "Manual" /\ last'.ok) =>
                /\ buf' = <<>>
                /\ SubSeq(file', 1, Len(base)) = base
                /\ InOrder(okRecs, SubSeq(file', Len(base) + 1, Len(file')))
                /\ ~anyErr => file' = base \o EncAll(okRecs)
          /\ (strategy = "Stream" /\ last.op \in Mutating /\ last.ok) =>
                /\ last'.ok
                /\ file' = file
                /\ inner' = inner]_vars

C6_Witness ==
    /\ open
    /\ strategy = "Manual"
    /\ last.op = "flush"
    /\ last.ok
    /\ Len(okRecs) >= 2
    /\ file # base

\* C7: when new returns Ok, whatever was at path before, the file is one Insert
\* record per entry of the seed and nothing else, the in-memory map is the
\* seed, and the file replays to the seed.
C7_FreshSeed ==
    (last.op = "new" /\ last.ok)
        => /\ open
           /\ inner = last.seed
           /\ \E order \in IterOrders(last.seed) : file = SeedCmds(last.seed, order)
           /\ (last.seed = EmptyMap => file = <<>>)
           /\ Replay(file, EmptyMap) = [ok |-> TRUE, map |-> last.seed]

C7_Witness ==
    /\ last.op = "new"
    /\ last.ok
    /\ last.pre = "content"
    /\ Cardinality(DOMAIN last.seed) = 2

\* C8 as stated: try_from_file on a path with no file returns Ok with an empty
\* map, and the file exists afterwards.
C8_TryFromFileCreates ==
    (last.op = "try_from_file" /\ last.pre = "absent")
        => (last.ok /\ open /\ inner = EmptyMap /\ fexists)

\* The record a call is to append: the tag, the key with its length, and for
\* insert the value with its length.
C9_Record(c) ==
    IF c.op = "insert"
    THEN <<0, Len(c.key)>> \o c.key \o <<Len(c.val)>> \o c.val
    ELSE <<1, Len(c.key)>> \o c.key

\* C9: an insert or remove that returns Ok extends the log (the file, then the
\* buffer) by exactly the one record of the call, whether or not the key was
\* in the map.
C9_OneRecordPerCall ==
    [][(CallStep /\ last'.op \in Mutating /\ last'.ok)
          => file' \o buf' = (file \o buf) \o C9_Record(last')]_vars

C9_Witness ==
    /\ open
    /\ last.op = "remove"
    /\ last.ok
    /\ last.ret = None
    /\ Len(okRecs) >= 2

\* The value the last record for k in rs leaves: that of an Insert, none after
\* a Delete or when rs has no record for k.
LastWrite(rs, k) ==
    LET at == {i \in DOMAIN rs : rs[i].key = k} IN
    IF at = {} THEN None
    ELSE LET j == CHOOSE i \in at : \A x \in at : x <= i IN
         IF rs[j].tag = Insert_ THEN {rs[j].val} ELSE None

\* C10: hydration of a file that is a sequence of records succeeds, and for
\* every key the map holds the value of the last Insert for it when no Delete
\* follows, and no entry otherwise.
C10_LastWriteWins ==
    last.op \in Hydrating
        => (last.ok /\ open /\ \A k \in Keys : MapGet(inner, k) = LastWrite(given, k))

C10_Witness ==
    /\ last.op \in Hydrating
    /\ open
    /\ \E i, j \in DOMAIN given :
          /\ i < j
          /\ given[i].key = given[j].key
          /\ given[i].tag = Insert_
          /\ given[j].tag = Insert_
          /\ given[i].val # given[j].val
          /\ MapGet(inner, given[i].key) = {given[j].val}

\* Scenario A: the calls of tests::test_stream, and what they return.
ScenarioA == <<RecInsert(Abc, Fed), RecInsert(Abc, Def), RecDelete(Abc), RecInsert(Hello, World)>>
ScenarioResults == <<None, {Fed}, {Def}, None>>

\* C11: a successful insert(k, v) returns the value the map held for k just
\* before the call (None when k was absent) and leaves get(k) = v; a successful
\* remove(k) returns the value held before and leaves get(k) = None.  On a
\* store built from an empty map, the n-th call of Scenario A, made after the
\* n-1 before it, returns the n-th of None, Some(fed), Some(def), None.
C11_ReturnValues ==
    [][(CallStep /\ last'.op \in Mutating /\ last'.ok) =>
          /\ last'.ret = (IF last'.key \in DOMAIN inner THEN {inner[last'.key]} ELSE {})
          /\ (last'.op = "insert") =>
                (last'.key \in DOMAIN inner' /\ inner'[last'.key] = last'.val)
          /\ (last'.op = "remove") => (last'.key \notin DOMAIN inner')
          /\ \A n \in 1..Len(ScenarioA) :
                (initMap = EmptyMap /\ okRecs' = SubSeq(ScenarioA, 1, n))
                    => last'.ret = ScenarioResults[n]]_vars

\* The four calls of Scenario A were made, none failed, and the last returned
\* None: abc is gone and hello holds world.
C11_Witness ==
    /\ open
    /\ origin = "new"
    /\ okRecs = ScenarioA
    /\ ~anyErr
    /\ last.op = "insert"
    /\ last.ok
    /\ last.ret = None
    /\ inner = MapInsert(EmptyMap, Hello, World)

\* C12: from a file that holds a valid sequence of records followed by a
\* non-empty proper prefix of one more record, from_file and try_from_file
\* return an encoding error and no Perds value: the map replayed from the whole
\* records is not handed out.
C12_TruncatedTailFatal ==
    (last.op \in Hydrating) => (~last.ok /\ last.err = "SerError" /\ ~open)

\* A hydration failed on a file with whole records that replay to a non-empty
\* map before the cut-off one.
C12_Witness ==
    /\ last.op = "try_from_file"
    /\ ~last.ok
    /\ Len(given) = MaxTornRecs
    /\ Len(file) > Len(EncAll(given))
    /\ Replay(EncAll(given), EmptyMap).ok
    /\ Replay(EncAll(given), EmptyMap).map # EmptyMap

\* C13: from_file on a path where no file exists returns a storage error and
\* no Perds value, and no file exists at the path afterwards.
C13_FromFileMissing ==
    (last.op = "from_file" /\ last.pre = "absent") =>
        (~last.ok /\ last.err = "FileError" /\ ~open /\ ~fexists /\ file = <<>>)

\* from_file was called before any file was made at the path, and failed.
C13_Witness ==
    /\ last.op = "from_file"
    /\ last.pre = "absent"
    /\ ~last.ok
    /\ nopens = 1

\* C14: remove(k) for a key k that is not in the map, in a call during which
\* the environment fails no write, returns Ok(None), leaves the map unchanged
\* and appends one Delete record for k to the log (the file followed by the
\* buffer); a log in which a Delete for k follows no Insert for k replays
\* without error to a map without k.
C14_DeleteAbsentSafe ==
    /\ [][(CallStep /\ last'.op = "remove" /\ last'.key \notin DOMAIN inner
              /\ nfaults' = nfaults) =>
             /\ last'.ok
             /\ last'.ret = None
             /\ inner' = inner
             /\ file' \o buf' = file \o buf \o DeleteCmd(last'.key)]_vars
    /\ [](\A k \in Keys : \A rs \in {<<>>, <<RecInsert(<<0>>, <<1>>)>>} :
             LET r == Replay(EncAll(rs) \o DeleteCmd(k), EmptyMap) IN
             r.ok /\ k \notin DOMAIN r.map)

\* C14 on the Perds values whose File was opened for writing (new and
\* try_from_file).
C14_DeleteAbsentSafeWritable ==
    [][(CallStep /\ last'.op = "remove" /\ last'.key \notin DOMAIN inner
          /\ nfaults' = nfaults /\ canWrite) =>
         /\ last'.ok
         /\ last'.ret = None
         /\ inner' = inner
         /\ file' \o buf' = file \o buf \o DeleteCmd(last'.key)]_vars

\* C15: from_file and try_from_file leave the bytes of the file as they were,
\* and so do flush and the drop of a hydrated Perds value on which insert and
\* remove were never called; a second hydration of the file, after the first
\* Perds value was dropped without an insert or remove, returns a map equal to
\* the first.
C15_IdempotentHydration ==
    /\ [][/\ (last'.op \in Hydrating) => (file' = file /\ fexists' = fexists)
          /\ (origin \in Hydrating /\ open /\ okRecs = <<>> /\ ~anyErr
                 /\ last'.op \in {"flush", "drop"}) => file' = file]_vars
    /\ []((last.op \in Hydrating /\ prev.origin \in Hydrating
             /\ prev.okRecs = <<>> /\ ~prev.anyErr)
            => (last.ok /\ open /\ inner = prev.initMap))

\* A file was hydrated by from_file, the Perds value flushed and dropped, and
\* the file hydrated again by try_from_file, to a map that is not empty.
C15_Witness ==
    /\ last.op = "try_from_file"
    /\ last.ok
    /\ prev.origin = "from_file"
    /\ prev.okRecs = <<>>
    /\ ~prev.anyErr
    /\ ncalls > 0
    /\ inner # EmptyMap
    /\ inner = prev.initMap
    /\ file = EncAll(given)

\* b starts with a.
IsPrefix(a, b) == Len(a) <= Len(b) /\ SubSeq(b, 1, Len(a)) = a

\* C16: while a Perds value made by new or try_from_file lives, and when it is
\* dropped, every insert, remove and flush leaves the file with its earlier
\* bytes as a prefix; the File's offset is the end of the file, so what is
\* written next starts there, and the bytes the file had when the constructor
\* returned (for try_from_file, the records hydrated) stay at its start.
C16_AppendOnly ==
    /\ [][(open /\ origin \in {"new", "try_from_file"}
             /\ last'.op \in {"insert", "remove", "flush", "drop"})
            => IsPrefix(file, file')]_vars
    /\ []((open /\ origin \in {"new", "try_from_file"})
            => (pos = Len(file) /\ IsPrefix(base, file)))

\* A Perds value from try_from_file on a file that held records has appended
\* the record of a call after them.
C16_Witness ==
    /\ open
    /\ origin = "try_from_file"
    /\ base # <<>>
    /\ okRecs # <<>>
    /\ last.op \in Mutating
    /\ last.ok
    /\ file = base \o EncAll(okRecs)

\* The bytes tests::test_stream asserts the file to hold after Scenario A.
ScenarioBytes ==
    <<0, 3, 97, 98, 99, 3, 102, 101, 100, 0, 3, 97, 98, 99, 3, 100, 101, 102,
      1, 3, 97, 98, 99, 0, 5, 104, 101, 108, 108, 111, 5, 119, 111, 114, 108, 100>>

\* Bytes that may follow a record: none, the records written after it, and
\* bytes that are no record.
Rests(rs) == {<<>>, EncAll(rs), <<3>>, <<1, 5, 97>>}

\* C17: a record is written as its tag (0 Insert, 1 Delete), the encoded key
\* and, for Insert, the encoded value; taking a record from the bytes written
\* for r followed by any bytes rest yields r and rest; so the file written by
\* the successful calls of a Perds value built from an empty map, none of whose
\* calls failed, decodes to the records of those calls in order, and after
\* Scenario A it is the 36 bytes the test asserts.
C17_SelfDelimiting ==
    (open /\ origin = "new" /\ ~anyErr) =>
        /\ \A i \in 1..Len(okRecs) :
              LET r == okRecs[i] IN
              /\ EncRec(r) = <<r.tag, Len(r.key)>> \o r.key
                                \o (IF r.tag = Insert_ THEN <<Len(r.val)>> \o r.val ELSE <<>>)
              /\ \A rest \in Rests(SubSeq(okRecs, i + 1, Len(okRecs))) :
                    TakeRec(EncRec(r) \o rest) = [ok |-> TRUE, val |-> r, rest |-> rest]
        /\ TakeAll(file) = [ok |-> TRUE, recs |-> okRecs]
        /\ Replay(file, EmptyMap) = [ok |-> TRUE, map |-> ApplyAll(EmptyMap, okRecs)]
        /\ (okRecs = ScenarioA) => (file = ScenarioBytes)

\* Scenario A was run without a failure: the file holds 36 bytes, of four
\* records.
C17_Witness ==
    /\ open
    /\ origin = "new"
    /\ ~anyErr
    /\ okRecs = ScenarioA
    /\ Len(file) = 36
    /\ TakeAll(file).ok
    /\ Len(TakeAll(file).recs) = 4

\* C18: the record of an insert or remove that returned Err is not put in the
\* file by a later call on the same Perds value: under Stream, where every
\* successful call leaves the buffer empty, a successful insert or remove adds
\* to the file its own record and nothing else, and a successful flush adds
\* nothing; hence, once a call has failed and a later insert, remove or flush
\* has succeeded, a file that holds whole records replays to the map of the
\* Perds value.
C18_NoGhostRecords ==
    /\ [][(CallStep /\ canWrite /\ strategy = "Stream" /\ last'.ok) =>
             file' = file \o (IF last'.op = "flush" THEN <<>> ELSE C9_Record(last'))]_vars
    /\ []((open /\ canWrite /\ anyErr /\ buf = <<>> /\ last.ok
              /\ last.op \in Mutating \cup {"flush"} /\ TakeAll(file).ok)
            => Replay(file, EmptyMap).map = inner)

\* C19: new writes the entries of the seed in the order the map iterates them;
\* whichever order that is, the batch replays to the seed, and a hydration of
\* the file that new left (the Perds value dropped with no insert or remove
\* made on it) returns a map equal to the seed.
C19_SeedOrderIndependent ==
    /\ (last.op = "new" /\ last.ok) =>
          \A order \in IterOrders(last.seed) :
              Replay(SeedCmds(last.seed, order), EmptyMap) = [ok |-> TRUE, map |-> last.seed]
    /\ (last.op \in Hydrating /\ prev.origin = "new" /\ prev.okRecs = <<>> /\ ~prev.anyErr)
          => (last.ok /\ inner = prev.initMap)

\* from_file returned the two entries of a seed that new had written with the
\* key "\1\0" first.
C19_Witness ==
    /\ last.op = "from_file"
    /\ last.ok
    /\ prev.origin = "new"
    /\ prev.okRecs = <<>>
    /\ ~prev.anyErr
    /\ DOMAIN inner = {<<0>>, <<1, 0>>}
    /\ file = SeedCmds(inner, << <<1, 0>>, <<0>> >>)

====
